---- MODULE Spec2Model ----
(***************************************************************************)
(* Model of html/backend/app.py: a Flask service that keeps homework rows  *)
(* and attachment rows in one SQLite file and attachment bytes in one      *)
(* upload directory.  Every database handler runs under the process-wide   *)
(* threading.Lock db_lock (decorator with_db_lock, or the with statement   *)
(* of init_db).  One action is one statement (or one loop iteration) of a  *)
(* handler, so that interleavings of request threads, uncommitted          *)
(* transactions and process restarts are all visible.                      *)
(***************************************************************************)
EXTENDS Integers, Sequences, FiniteSets, TLC

\* ------------------------------------------------------------------ bounds
NumThreads == 2      \* request threads of app.run(threaded=True)
MaxAdds    == 2      \* homework rows ever inserted (caps AUTOINCREMENT ids)
MaxNames   == 2      \* stored names generated over a run (caps uuid4 draws)
MaxFiles   == 2      \* upload entries carried by one request
MaxClock   == 2      \* seconds the wall clock may show

\* ------------------------------------------------------- program constants
max_attempts == 5    \* get_db_connection: max_attempts = 5
SleepMs      == 500  \* get_db_connection: time.sleep(0.5)

Main    == 0
Threads == 1 .. NumThreads
Procs   == {Main} \cup Threads
NoOne   == -1

\* ------------------------------------------------------------ request data
required_fields == {"time", "subject", "title", "content"}

Form1 == [time |-> "t1", subject |-> "Math", title |-> "T1", content |-> "c1"]
Form2 == [time |-> "t2", subject |-> "Art", title |-> "T2", content |-> "c2"]
NoForm == [k \in required_fields |-> ""]

Drop(f, k)  == [x \in (DOMAIN f) \ {k} |-> f[x]]
Blank(f, k) == [f EXCEPT ![k] = ""]

BlankFields == {"title"}

\* request.form as the client may send it: complete, one key absent, or one
\* key present with the empty string
Forms == {Form1, Form2}
           \cup {Drop(Form1, k) : k \in required_fields}
           \cup {Blank(Form1, k) : k \in BlankFields}

FileNames == {"", "a.txt"}

SeqsUpTo(S, n) == UNION {[1 .. m -> S] : m \in 0 .. n}

NonEmptyCount(fs) == Cardinality({j \in DOMAIN fs : fs[j] /= ""})

IdRange == 1 .. MaxAdds

NoName == <<0, 0, "">>

\* ---------------------------------------------------------------- database
\* the SQLite file: the tables that exist, their rows, and the AUTOINCREMENT
\* counters of sqlite_sequence
EmptyDb == [tables |-> {}, homeworks |-> {}, attachments |-> {},
            hw_seq |-> 0, att_seq |-> 0]

VARIABLES
  pc,        \* pc[p]: the statement process p executes next
  op,        \* op[p]: the handler process p runs ("none" when idle)
  loc,       \* loc[p]: the local variables of that handler
  resp,      \* resp[p]: the response the handler has produced
  pre,       \* pre[p]: database and upload directory as p found them on entry
  db_lock,   \* holder of threading.Lock db_lock, or NoOne
  conn,      \* conn[p]: p's sqlite3 connection and its open transaction
  db,        \* committed content of homework.db
  disk,      \* upload directory: the stored names that exist in it
  clock,     \* wall clock, in seconds
  names,     \* number of uuid4 values drawn so far
  serving    \* TRUE once app.run is reached

vars == <<pc, op, loc, resp, pre, db_lock, conn, db, disk, clock, names,
          serving>>

NoLoc == [id |-> 0, data |-> NoForm, files |-> <<>>, i |-> 0,
          homework_id |-> 0, unique_filename |-> NoName, saved_files |-> <<>>,
          attachments |-> {}, log |-> {}, attempts |-> 0, slept |-> 0,
          outcomes |-> <<>>]

NoResp == [status |-> 0, id |-> 0, attachments |-> <<>>, data |-> <<>>,
           why |-> "none"]

NoConn == [open |-> FALSE, intxn |-> FALSE, work |-> EmptyDb]

NoPre == [db |-> EmptyDb, disk |-> {}]

\* os.path.exists(os.path.join(UPLOAD_FOLDER, name))
Exists(d, name) == name \in d

\* what a statement on p's connection reads: its own uncommitted writes
View(p) == IF conn[p].intxn THEN conn[p].work ELSE db

\* SQLite admits one write transaction at a time
CanWrite(p) == \A q \in Procs \ {p} : ~conn[q].intxn

Init ==
  /\ pc = [p \in Procs |-> IF p = Main THEN "wait" ELSE "idle"]
  /\ op = [p \in Procs |-> "none"]
  /\ loc = [p \in Procs |-> NoLoc]
  /\ resp = [p \in Procs |-> NoResp]
  /\ pre = [p \in Procs |-> NoPre]
  /\ db_lock = NoOne
  /\ conn = [p \in Procs |-> NoConn]
  /\ db = EmptyDb
  /\ disk = {}
  /\ clock = 1
  /\ names = 0
  /\ serving = FALSE


\* ----------------------------------------------------------------- helpers
MinId(S) == CHOOSE x \in S : \A y \in S : x.id <= y.id

RECURSIVE SortById(_)
\* rows of a table in rowid order, the order a SELECT without ORDER BY scans
SortById(S) == IF S = {} THEN <<>>
               ELSE <<MinId(S)>> \o SortById(S \ {MinId(S)})

MapSeq(s, F(_)) == [j \in DOMAIN s |-> F(s[j])]

Set(p, label, newloc, newresp) ==
  /\ pc' = [pc EXCEPT ![p] = label]
  /\ loc' = [loc EXCEPT ![p] = newloc]
  /\ resp' = [resp EXCEPT ![p] = newresp]

Response(status, why) == [NoResp EXCEPT !.status = status, !.why = why]

\* variant: the lock is taken without waiting for it to be free
Acquire_NotExclusive(p, kind) ==
  /\ pc[p] = "wait"
  /\ db_lock' = p
  /\ op' = [op EXCEPT ![p] = kind]
  /\ pre' = [pre EXCEPT ![p] = [db |-> db, disk |-> disk]]

\* variant: the routes that store uploads lack the @with_db_lock decorator
Acquire_UploadsUnlocked(p, kind) ==
  /\ pc[p] = "wait"
  /\ IF kind \in {"add", "update"}
     THEN db_lock' = db_lock
     ELSE db_lock = NoOne /\ db_lock' = p
  /\ op' = [op EXCEPT ![p] = kind]
  /\ pre' = [pre EXCEPT ![p] = [db |-> db, disk |-> disk]]

\* `with db_lock:` / with_db_lock.wrapper: block until the lock is free, then
\* enter the handler the request was routed to
Acquire(p, kind) ==
  /\ pc[p] = "wait"
  /\ db_lock = NoOne
  /\ db_lock' = p
  /\ op' = [op EXCEPT ![p] = kind]
  /\ pre' = [pre EXCEPT ![p] = [db |-> db, disk |-> disk]]

\* a write statement opens the implicit transaction of the connection
Write(p, newdb) ==
  /\ CanWrite(p)
  /\ conn' = [conn EXCEPT ![p] = [open |-> TRUE, intxn |-> TRUE, work |-> newdb]]

\* ------------------------------------------------------------ environment
\* a request for one of the locked routes arrives on an idle thread and calls
\* the wrapper; which route it is for shows when the handler is entered
Request(r) ==
  /\ serving
  /\ pc[r] = "idle"
  /\ pc' = [pc EXCEPT ![r] = "wait"]
  /\ UNCHANGED <<op, loc, resp, pre, db_lock, conn, db, disk, clock, names,
                 serving>>

Tick ==
  /\ clock < MaxClock
  /\ clock' = clock + 1
  /\ UNCHANGED <<pc, op, loc, resp, pre, db_lock, conn, db, disk, names,
                 serving>>

\* the process dies at any point and is started again: threads, the lock and
\* open connections are gone, the database file keeps what was committed and
\* the upload directory keeps what was written
Restart ==
  /\ pc' = [p \in Procs |-> IF p = Main THEN "wait" ELSE "idle"]
  /\ op' = [p \in Procs |-> "none"]
  /\ loc' = [p \in Procs |-> NoLoc]
  /\ resp' = [p \in Procs |-> NoResp]
  /\ pre' = [p \in Procs |-> NoPre]
  /\ db_lock' = NoOne
  /\ conn' = [p \in Procs |-> NoConn]
  /\ serving' = FALSE
  /\ UNCHANGED <<db, disk, clock, names>>

\* ------------------------------------------------------ get_db_connection
FirstStatement(kind) ==
  CASE kind = "init"   -> "create1"
    [] kind = "get"    -> "select"
    [] kind = "add"    -> "insert"
    [] kind = "update" -> "check"
    [] kind = "delete" -> "selatt"

\* variant: the retry test reads `attempts < max_attempts`
get_db_connection_OneMore(p) ==
  /\ pc[p] = "connect"
  /\ \E outcome \in {"ok", "locked", "error"} :
       LET l == loc[p]
           seen == Append(l.outcomes, outcome)
       IN IF ~(l.attempts < max_attempts)
          THEN /\ Set(p, "ret", NoLoc, Response(500, "none"))
               /\ UNCHANGED conn
          ELSE IF outcome = "ok"
          THEN /\ conn' = [conn EXCEPT ![p] = [NoConn EXCEPT !.open = TRUE]]
               /\ Set(p, FirstStatement(op[p]),
                      [l EXCEPT !.attempts = 0, !.slept = 0, !.outcomes = <<>>],
                      resp[p])
          ELSE IF outcome = "locked" /\ l.attempts < max_attempts
          THEN /\ Set(p, "connect",
                      [l EXCEPT !.attempts = @ + 1, !.slept = @ + SleepMs,
                                !.outcomes = seen],
                      resp[p])
               /\ UNCHANGED conn
          ELSE /\ Set(p, "ret", NoLoc, Response(500, outcome))
               /\ UNCHANGED conn
  /\ UNCHANGED <<op, pre, db_lock, db, disk, clock, names, serving>>

\* one pass of the while loop: sqlite3.connect succeeds, reports "database is
\* locked", or fails otherwise
get_db_connection(p) ==
  /\ pc[p] = "connect"
  /\ \E outcome \in {"ok", "locked", "error"} :
       LET l == loc[p]
           seen == Append(l.outcomes, outcome)
       IN IF ~(l.attempts < max_attempts)
          THEN \* loop left without a connection: conn is None, the handler fails
               /\ Set(p, "ret", NoLoc, Response(500, "none"))
               /\ UNCHANGED conn
          ELSE IF outcome = "ok"
          THEN /\ conn' = [conn EXCEPT ![p] = [NoConn EXCEPT !.open = TRUE]]
               /\ Set(p, FirstStatement(op[p]),
                      [l EXCEPT !.attempts = 0, !.slept = 0, !.outcomes = <<>>],
                      resp[p])
          ELSE IF outcome = "locked" /\ l.attempts < max_attempts - 1
          THEN /\ Set(p, "connect",
                      [l EXCEPT !.attempts = @ + 1, !.slept = @ + SleepMs,
                                !.outcomes = seen],
                      resp[p])
               /\ UNCHANGED conn
          ELSE \* raise: leaves the handler, Flask answers 500
               /\ Set(p, "ret", NoLoc, Response(500, outcome))
               /\ UNCHANGED conn
  /\ UNCHANGED <<op, pre, db_lock, db, disk, clock, names, serving>>

\* variant: closing the connection commits what is pending
Close_Commits(p) ==
  /\ pc[p] = "close"
  /\ db' = IF conn[p].intxn THEN conn[p].work ELSE db
  /\ conn' = [conn EXCEPT ![p] = NoConn]
  /\ pc' = [pc EXCEPT ![p] = "ret"]
  /\ loc' = [loc EXCEPT ![p] = NoLoc]
  /\ pre' = [pre EXCEPT ![p] = NoPre]
  /\ UNCHANGED <<op, resp, db_lock, disk, clock, names, serving>>

\* finally: conn.close() -- an open transaction is rolled back; the handler
\* returns and its locals are gone
Close(p) ==
  /\ pc[p] = "close"
  /\ conn' = [conn EXCEPT ![p] = NoConn]
  /\ pc' = [pc EXCEPT ![p] = "ret"]
  /\ loc' = [loc EXCEPT ![p] = NoLoc]
  /\ pre' = [pre EXCEPT ![p] = NoPre]
  /\ UNCHANGED <<op, resp, db_lock, db, disk, clock, names, serving>>

\* conn.commit()
Commit(p) == /\ db' = IF conn[p].intxn THEN conn[p].work ELSE db
             /\ conn' = [conn EXCEPT ![p] = [NoConn EXCEPT !.open = TRUE]]

\* variant: the wrapper calls db_lock.acquire() and db_lock.release() around
\* the handler without try/finally, so an exception leaving the handler skips
\* the release
Release_NotOnException(r) ==
  /\ r \in Threads
  /\ pc[r] = "ret"
  /\ db_lock' = IF db_lock = r /\ resp[r].why \notin {"locked", "error"}
                THEN NoOne ELSE db_lock
  /\ pc' = [pc EXCEPT ![r] = "idle"]
  /\ op' = [op EXCEPT ![r] = "none"]
  /\ loc' = [loc EXCEPT ![r] = NoLoc]
  /\ resp' = [resp EXCEPT ![r] = NoResp]
  /\ pre' = [pre EXCEPT ![r] = NoPre]
  /\ UNCHANGED <<conn, db, disk, clock, names, serving>>

\* the wrapper returns: the lock is released and the response goes out
Release(r) ==
  /\ r \in Threads
  /\ pc[r] = "ret"
  /\ db_lock' = IF db_lock = r THEN NoOne ELSE db_lock
  /\ pc' = [pc EXCEPT ![r] = "idle"]
  /\ op' = [op EXCEPT ![r] = "none"]
  /\ loc' = [loc EXCEPT ![r] = NoLoc]
  /\ resp' = [resp EXCEPT ![r] = NoResp]
  /\ pre' = [pre EXCEPT ![r] = NoPre]
  /\ UNCHANGED <<conn, db, disk, clock, names, serving>>

\* ------------------------------------------------------------------ init_db
InitEnter ==
  /\ Acquire(Main, "init")
  /\ pc' = [pc EXCEPT ![Main] = "connect"]
  /\ UNCHANGED <<loc, resp, conn, db, disk, clock, names, serving>>

\* CREATE TABLE IF NOT EXISTS homeworks / attachments
InitCreate ==
  /\ pc[Main] \in {"create1", "create2"}
  /\ db' = [db EXCEPT !.tables =
              @ \cup {IF pc[Main] = "create1" THEN "homeworks" ELSE "attachments"}]
  /\ pc' = [pc EXCEPT ![Main] = IF pc[Main] = "create1" THEN "create2" ELSE "commit"]
  /\ UNCHANGED <<op, loc, resp, pre, db_lock, conn, disk, clock, names,
                 serving>>

InitCommit ==
  /\ pc[Main] = "commit"
  /\ Commit(Main)
  /\ Set(Main, "close", loc[Main], Response(200, "ok"))
  /\ UNCHANGED <<op, pre, db_lock, disk, clock, names, serving>>

\* init_db returns and app.run starts serving, or its exception ends the process
InitReturn ==
  /\ pc[Main] = "ret"
  /\ db_lock' = IF db_lock = Main THEN NoOne ELSE db_lock
  /\ pc' = [pc EXCEPT ![Main] = IF resp[Main].status = 200 THEN "serve" ELSE "exit"]
  /\ serving' = (resp[Main].status = 200)
  /\ op' = [op EXCEPT ![Main] = "none"]
  /\ loc' = [loc EXCEPT ![Main] = NoLoc]
  /\ resp' = [resp EXCEPT ![Main] = NoResp]
  /\ pre' = [pre EXCEPT ![Main] = NoPre]
  /\ UNCHANGED <<conn, db, disk, clock, names>>


\* ------------------------------------------------------------ get_homeworks
GetEnter(r) ==
  /\ Acquire(r, "get")
  /\ pc' = [pc EXCEPT ![r] = "connect"]
  /\ UNCHANGED <<loc, resp, conn, db, disk, clock, names, serving>>

\* the result orders of SELECT * FROM homeworks ORDER BY created_at DESC:
\* rows with equal created_at may come in either order
OrderedByCreatedAtDesc(rows) ==
  {s \in [1 .. Cardinality(rows) -> rows] :
     /\ \A a, b \in DOMAIN s : a /= b => s[a] /= s[b]
     /\ \A a, b \in DOMAIN s : a < b => s[a].created_at >= s[b].created_at}

AttachmentJson(att) ==
  [id |-> att.id, filename |-> att.filename, filepath |-> att.filepath]

HomeworkJson(hw, attachments) ==
  [id |-> hw.id, time |-> hw.time, subject |-> hw.subject, title |-> hw.title,
   content |-> hw.content, createdAt |-> hw.created_at,
   attachments |->
     MapSeq(SortById({att \in attachments : att.homework_id = hw.id}),
            AttachmentJson)]

\* variant: data[subject] is reset for every row, keeping only the last one
GroupBySubject_Reset(homeworks, attachments) ==
  [subject \in {homeworks[j].subject : j \in DOMAIN homeworks} |->
     [homeworks |->
        LET mine == SelectSeq(homeworks, LAMBDA hw : hw.subject = subject)
        IN <<HomeworkJson(mine[Len(mine)], attachments)>>]]

\* the grouping loop of get_homeworks over the fetched rows
GroupBySubject(homeworks, attachments) ==
  [subject \in {homeworks[j].subject : j \in DOMAIN homeworks} |->
     [homeworks |->
        LET mine == SelectSeq(homeworks, LAMBDA hw : hw.subject = subject)
        IN [j \in DOMAIN mine |-> HomeworkJson(mine[j], attachments)]]]

\* every listing get_homeworks may return on database d
Listings(d) ==
  {GroupBySubject(s, d.attachments) : s \in OrderedByCreatedAtDesc(d.homeworks)}

GetSelect(r) ==
  /\ pc[r] = "select"
  /\ \E data \in Listings(View(r)) :
       Set(r, "close", loc[r], [Response(200, "ok") EXCEPT !.data = data])
  /\ UNCHANGED <<op, pre, db_lock, conn, db, disk, clock, names, serving>>

\* ------------------------------------------------------------- add_homework
\* all(field in data for field in required_fields)
HasRequiredFields(data) == \A field \in required_fields : field \in DOMAIN data

\* the upload lists a request may carry, given the stored names still available
Uploads == {fs \in SeqsUpTo(FileNames, MaxFiles) :
              NonEmptyCount(fs) <= MaxNames - names}

\* the wrapper enters add_homework: request.form is read and validated.  The
\* guard on hw_seq keeps the AUTOINCREMENT ids within MaxAdds.
AddEnter(r) ==
  /\ db.hw_seq < MaxAdds
  /\ Acquire(r, "add")
  /\ \E data \in Forms :
       IF ~HasRequiredFields(data)
       THEN Set(r, "ret", [loc[r] EXCEPT !.data = data],
                Response(400, "missing"))
       ELSE Set(r, "connect", [loc[r] EXCEPT !.data = data], resp[r])
  /\ UNCHANGED <<conn, db, disk, clock, names, serving>>

\* variant: id is declared INTEGER PRIMARY KEY without AUTOINCREMENT, so the
\* new rowid is one more than the largest rowid in the table
AddInsert_MaxRowid(r) ==
  /\ pc[r] = "insert"
  /\ LET d == View(r)
         used == {hw.id : hw \in d.homeworks} \cup {0}
         id == (CHOOSE x \in used : \A y \in used : x >= y) + 1
         row == [id |-> id, time |-> loc[r].data["time"],
                 subject |-> loc[r].data["subject"],
                 title |-> loc[r].data["title"],
                 content |-> loc[r].data["content"], created_at |-> clock]
     IN /\ Write(r, [d EXCEPT !.homeworks = @ \cup {row}, !.hw_seq = id])
        /\ \E files \in Uploads :
             Set(r, "loop",
                 [loc[r] EXCEPT !.homework_id = id, !.files = files, !.i = 1],
                 resp[r])
  /\ UNCHANGED <<op, pre, db_lock, db, disk, clock, names, serving>>

\* INSERT INTO homeworks ...; homework_id = cursor.lastrowid.  The upload list
\* of the request (files, read on entry) is drawn here, where the loop that
\* follows first looks at it.
AddInsert(r) ==
  /\ pc[r] = "insert"
  /\ LET d == View(r)
         id == d.hw_seq + 1
         row == [id |-> id, time |-> loc[r].data["time"],
                 subject |-> loc[r].data["subject"],
                 title |-> loc[r].data["title"],
                 content |-> loc[r].data["content"], created_at |-> clock]
     IN /\ Write(r, [d EXCEPT !.homeworks = @ \cup {row}, !.hw_seq = id])
        /\ \E files \in Uploads :
             Set(r, "loop",
                 [loc[r] EXCEPT !.homework_id = id, !.files = files, !.i = 1],
                 resp[r])
  /\ UNCHANGED <<op, pre, db_lock, db, disk, clock, names, serving>>

\* variant: the name is built without the uuid4 part
UniqueFilename_NoUuid(filename) == <<clock, 1, filename>>

\* f"{datetime.now():%Y%m%d%H%M%S}_{uuid.uuid4().hex}_{file.filename}"; the
\* uuid4 value is the number of the draw: no two draws return the same value
UniqueFilename(filename) == <<clock, names + 1, filename>>

\* variant: an empty filename ends the loop (break) instead of being skipped
NextFile_BreakOnEmpty(r) ==
  /\ pc[r] = "loop"
  /\ loc[r].i <= Len(loc[r].files)
  /\ LET l == loc[r]
     IN IF l.files[l.i] = ""
        THEN /\ Set(r, "loop", [l EXCEPT !.i = Len(l.files) + 1], resp[r])
             /\ UNCHANGED <<disk, names>>
        ELSE LET name == UniqueFilename(l.files[l.i])
             IN /\ names' = names + 1
                /\ \/ /\ disk' = disk \cup {name}
                      /\ Set(r, "saving", [l EXCEPT !.unique_filename = name],
                             resp[r])
                   \/ /\ disk' = disk
                      /\ Set(r, "close", [l EXCEPT !.unique_filename = name],
                             Response(500, "save"))
  /\ UNCHANGED <<op, pre, db_lock, conn, db, clock, serving>>

\* `for file in files:` up to the point where file.save has opened its target
NextFile(r) ==
  /\ pc[r] = "loop"
  /\ loc[r].i <= Len(loc[r].files)
  /\ LET l == loc[r]
     IN IF l.files[l.i] = ""
        THEN /\ Set(r, "loop", [l EXCEPT !.i = @ + 1], resp[r])
             /\ UNCHANGED <<disk, names>>
        ELSE LET name == UniqueFilename(l.files[l.i])
             IN /\ names' = names + 1
                /\ \/ /\ disk' = disk \cup {name}
                      /\ Set(r, "saving", [l EXCEPT !.unique_filename = name],
                             resp[r])
                   \/ \* open() fails: nothing is created
                      /\ disk' = disk
                      /\ Set(r, "close", [l EXCEPT !.unique_filename = name],
                             Response(500, "save"))
  /\ UNCHANGED <<op, pre, db_lock, conn, db, clock, serving>>

\* file.save copies the stream: it completes, or fails and leaves what it wrote
SaveWrite(r) ==
  /\ pc[r] = "saving"
  /\ LET name == loc[r].unique_filename
     IN \/ /\ disk' = disk \cup {name}
           /\ Set(r, "attach", loc[r], resp[r])
        \/ /\ disk' = disk
           /\ Set(r, "close", loc[r], Response(500, "save"))
  /\ UNCHANGED <<op, pre, db_lock, conn, db, clock, names, serving>>

\* variant: update_homework passes homework_id, a name only add_homework
\* assigns, instead of id
InsertAttachment_WrongId(r) ==
  /\ pc[r] = "attach"
  /\ LET d == View(r)
         l == loc[r]
         row == [id |-> d.att_seq + 1, homework_id |-> l.homework_id,
                 filename |-> l.files[l.i], filepath |-> l.unique_filename]
     IN /\ Write(r, [d EXCEPT !.attachments = @ \cup {row}, !.att_seq = @ + 1])
        /\ Set(r, "loop",
               [l EXCEPT !.i = @ + 1,
                         !.saved_files = Append(@, [filename |-> l.files[l.i],
                                                    filepath |-> l.unique_filename])],
               resp[r])
  /\ UNCHANGED <<op, pre, db_lock, db, disk, clock, names, serving>>

\* INSERT INTO attachments ...; saved_files.append(...)
InsertAttachment(r) ==
  /\ pc[r] = "attach"
  /\ LET d == View(r)
         l == loc[r]
         row == [id |-> d.att_seq + 1,
                 homework_id |-> IF op[r] = "add" THEN l.homework_id ELSE l.id,
                 filename |-> l.files[l.i], filepath |-> l.unique_filename]
     IN /\ Write(r, [d EXCEPT !.attachments = @ \cup {row}, !.att_seq = @ + 1])
        /\ Set(r, "loop",
               [l EXCEPT !.i = @ + 1,
                         !.saved_files = Append(@, [filename |-> l.files[l.i],
                                                    filepath |-> l.unique_filename])],
               resp[r])
  /\ UNCHANGED <<op, pre, db_lock, db, disk, clock, names, serving>>

\* the loop is exhausted: conn.commit(); return jsonify({...}), 201 / 200
SaveCommit(r) ==
  /\ pc[r] = "loop"
  /\ loc[r].i > Len(loc[r].files)
  /\ Commit(r)
  /\ Set(r, "close", loc[r],
         [Response(IF op[r] = "add" THEN 201 ELSE 200, "ok") EXCEPT
            !.id = IF op[r] = "add" THEN loc[r].homework_id ELSE loc[r].id,
            !.attachments = loc[r].saved_files])
  /\ UNCHANGED <<op, pre, db_lock, disk, clock, names, serving>>

\* ---------------------------------------------------------- update_homework
UpdateEnter(r) ==
  /\ Acquire(r, "update")
  /\ \E data \in Forms :
       IF ~HasRequiredFields(data)
       THEN Set(r, "ret", [loc[r] EXCEPT !.data = data],
                Response(400, "missing"))
       ELSE Set(r, "connect", [loc[r] EXCEPT !.data = data], resp[r])
  /\ UNCHANGED <<conn, db, disk, clock, names, serving>>

\* variant: the fetched row is not tested for None
UpdateCheck_NoTest(r) ==
  /\ pc[r] = "check"
  /\ \E id \in IdRange : Set(r, "update", [loc[r] EXCEPT !.id = id], resp[r])
  /\ UNCHANGED <<op, pre, db_lock, conn, db, disk, clock, names, serving>>

\* SELECT * FROM homeworks WHERE id = ?  The id of the URL is drawn here, at
\* its first use.
UpdateCheck(r) ==
  /\ pc[r] = "check"
  /\ \E id \in IdRange :
       LET l == [loc[r] EXCEPT !.id = id]
       IN IF \E hw \in View(r).homeworks : hw.id = id
          THEN Set(r, "update", l, resp[r])
          ELSE Set(r, "close", l, Response(404, "unknown"))
  /\ UNCHANGED <<op, pre, db_lock, conn, db, disk, clock, names, serving>>

\* variant: the row is replaced, so created_at takes its default again
UpdateRow_Replace(hw, data) ==
  [hw EXCEPT !.time = data["time"], !.subject = data["subject"],
             !.title = data["title"], !.content = data["content"],
             !.created_at = clock]

\* UPDATE homeworks SET time=?, subject=?, title=?, content=? WHERE id=?
UpdateRow(hw, data) ==
  [hw EXCEPT !.time = data["time"], !.subject = data["subject"],
             !.title = data["title"], !.content = data["content"]]

\* variant: conn.commit() follows the UPDATE at once, before the uploads
UpdateSet_Commits(r) ==
  /\ pc[r] = "update"
  /\ LET d == View(r)
     IN /\ db' = [d EXCEPT !.homeworks =
                    {IF hw.id = loc[r].id THEN UpdateRow(hw, loc[r].data) ELSE hw
                       : hw \in @}]
        /\ conn' = [conn EXCEPT ![r] = [NoConn EXCEPT !.open = TRUE]]
  /\ \E files \in Uploads :
       Set(r, "loop", [loc[r] EXCEPT !.files = files, !.i = 1], resp[r])
  /\ UNCHANGED <<op, pre, db_lock, disk, clock, names, serving>>

\* the UPDATE statement; the upload list is drawn as in AddInsert
UpdateSet(r) ==
  /\ pc[r] = "update"
  /\ LET d == View(r)
     IN Write(r, [d EXCEPT !.homeworks =
                    {IF hw.id = loc[r].id THEN UpdateRow(hw, loc[r].data) ELSE hw
                       : hw \in @}])
  /\ \E files \in Uploads :
       Set(r, "loop", [loc[r] EXCEPT !.files = files, !.i = 1], resp[r])
  /\ UNCHANGED <<op, pre, db_lock, db, disk, clock, names, serving>>

\* ---------------------------------------------------------- delete_homework
DeleteEnter(r) ==
  /\ Acquire(r, "delete")
  /\ pc' = [pc EXCEPT ![r] = "connect"]
  /\ UNCHANGED <<loc, resp>>
  /\ UNCHANGED <<conn, db, disk, clock, names, serving>>

\* SELECT id, filepath FROM attachments WHERE homework_id = ?  The id of the
\* URL is drawn here, at its first use.
DeleteSelect(r) ==
  /\ pc[r] = "selatt"
  /\ \E id \in IdRange :
       Set(r, "delatt",
           [loc[r] EXCEPT !.id = id, !.attachments =
              {[id |-> att.id, filepath |-> att.filepath] :
                 att \in {a \in View(r).attachments : a.homework_id = id}}],
           resp[r])
  /\ UNCHANGED <<op, pre, db_lock, conn, db, disk, clock, names, serving>>

\* variant: the files are unlinked while the rows are being deleted, before
\* the commit
DeleteAttachments_UnlinkFirst(r) ==
  /\ pc[r] = "delatt"
  /\ LET d == View(r)
     IN Write(r, [d EXCEPT !.attachments =
                    {att \in @ : att.homework_id /= loc[r].id}])
  /\ disk' = disk \ {att.filepath : att \in loc[r].attachments}
  /\ Set(r, "delhw", loc[r], resp[r])
  /\ UNCHANGED <<op, pre, db_lock, db, clock, names, serving>>

\* variant: the connection is in autocommit mode, each DELETE is committed
\* as it runs
DeleteAttachments_Autocommit(r) ==
  /\ pc[r] = "delatt"
  /\ db' = [db EXCEPT !.attachments =
              {att \in @ : att.homework_id /= loc[r].id}]
  /\ Set(r, "delhw", loc[r], resp[r])
  /\ UNCHANGED <<op, pre, db_lock, conn, disk, clock, names, serving>>

\* DELETE FROM attachments WHERE homework_id = ?
DeleteAttachments(r) ==
  /\ pc[r] = "delatt"
  /\ LET d == View(r)
     IN Write(r, [d EXCEPT !.attachments =
                    {att \in @ : att.homework_id /= loc[r].id}])
  /\ Set(r, "delhw", loc[r], resp[r])
  /\ UNCHANGED <<op, pre, db_lock, db, disk, clock, names, serving>>

\* variant: the second DELETE names the attachments table again
DeleteRow_WrongTable(r) ==
  /\ pc[r] = "delhw"
  /\ LET d == View(r)
     IN Write(r, [d EXCEPT !.attachments =
                    {att \in @ : att.homework_id /= loc[r].id}])
  /\ Set(r, "commit", loc[r], resp[r])
  /\ UNCHANGED <<op, pre, db_lock, db, disk, clock, names, serving>>

\* DELETE FROM homeworks WHERE id = ?
DeleteRow(r) ==
  /\ pc[r] = "delhw"
  /\ LET d == View(r)
     IN Write(r, [d EXCEPT !.homeworks = {hw \in @ : hw.id /= loc[r].id}])
  /\ Set(r, "commit", loc[r], resp[r])
  /\ UNCHANGED <<op, pre, db_lock, db, disk, clock, names, serving>>

DeleteCommit(r) ==
  /\ pc[r] = "commit"
  /\ Commit(r)
  /\ Set(r, "unlink", loc[r], resp[r])
  /\ UNCHANGED <<op, pre, db_lock, disk, clock, names, serving>>

\* one pass of `for att in attachments:`; a failing os.unlink is logged and
\* the loop goes on
DeleteUnlink(r) ==
  /\ pc[r] = "unlink"
  /\ loc[r].attachments /= {}
  /\ LET att == MinId(loc[r].attachments)
         rest == [loc[r] EXCEPT !.attachments = @ \ {att}]
     IN IF Exists(disk, att.filepath)
        THEN \/ /\ disk' = disk \ {att.filepath}
                /\ Set(r, "unlink",
                       [rest EXCEPT !.log = @ \cup {<<"deleted", att.filepath>>}],
                       resp[r])
             \/ \* os.unlink raises: logging.error, the file stays
                /\ disk' = disk
                /\ Set(r, "unlink",
                       [rest EXCEPT !.log = @ \cup {<<"failed", att.filepath>>}],
                       resp[r])
        ELSE /\ disk' = disk
             /\ Set(r, "unlink", rest, resp[r])
  /\ UNCHANGED <<op, pre, db_lock, conn, db, clock, names, serving>>

\* return jsonify({'message': ...})
DeleteDone(r) ==
  /\ pc[r] = "unlink"
  /\ loc[r].attachments = {}
  /\ Set(r, "close", loc[r], Response(200, "ok"))
  /\ UNCHANGED <<op, pre, db_lock, conn, db, disk, clock, names, serving>>

\* ------------------------------------------------------------ uploaded_file
StoredNames == {<<t, u, f>> : t \in 1 .. MaxClock, u \in 1 .. MaxNames,
                              f \in FileNames \ {""}}

\* the status of GET /uploads/<filename> on upload directory d
uploaded_file(d, filename) == IF ~Exists(d, filename) THEN 404 ELSE 200

\* the route takes no lock and changes nothing: an idle thread answers with
\* the status computed above and is idle again
Download(r, filename, status) ==
  /\ serving
  /\ pc[r] = "idle"
  /\ status = uploaded_file(disk, filename)
  /\ UNCHANGED vars

\* ------------------------------------------------------------ specification
Next ==
  \/ Tick
  \/ Restart
  \/ InitEnter
  \/ InitCreate
  \/ InitCommit
  \/ InitReturn
  \/ \E p \in Procs : get_db_connection(p)
  \/ \E p \in Procs : Close(p)
  \/ \E r \in Threads : Request(r)
  \/ \E r \in Threads : GetEnter(r)
  \/ \E r \in Threads : GetSelect(r)
  \/ \E r \in Threads : AddEnter(r)
  \/ \E r \in Threads : AddInsert(r)
  \/ \E r \in Threads : NextFile(r)
  \/ \E r \in Threads : SaveWrite(r)
  \/ \E r \in Threads : InsertAttachment(r)
  \/ \E r \in Threads : SaveCommit(r)
  \/ \E r \in Threads : UpdateEnter(r)
  \/ \E r \in Threads : UpdateCheck(r)
  \/ \E r \in Threads : UpdateSet(r)
  \/ \E r \in Threads : DeleteEnter(r)
  \/ \E r \in Threads : DeleteSelect(r)
  \/ \E r \in Threads : DeleteAttachments(r)
  \/ \E r \in Threads : DeleteRow(r)
  \/ \E r \in Threads : DeleteCommit(r)
  \/ \E r \in Threads : DeleteUnlink(r)
  \/ \E r \in Threads : DeleteDone(r)
  \/ \E r \in Threads : Release(r)
  \/ \E r \in Threads, filename \in StoredNames, status \in {200, 404} :
       Download(r, filename, status)

Spec == Init /\ [][Next]_vars

\* ------------------------------------------------------- fair scheduling
\* the wrapper of thread r obtains the lock and enters the handler
Enter(r) ==
  \/ GetEnter(r)
  \/ AddEnter(r)
  \/ UpdateEnter(r)
  \/ DeleteEnter(r)

\* the next statement of the handler thread r is in, up to the wrapper's return
Step(r) ==
  \/ get_db_connection(r)
  \/ GetSelect(r)
  \/ AddInsert(r)
  \/ NextFile(r)
  \/ SaveWrite(r)
  \/ InsertAttachment(r)
  \/ SaveCommit(r)
  \/ UpdateCheck(r)
  \/ UpdateSet(r)
  \/ DeleteSelect(r)
  \/ DeleteAttachments(r)
  \/ DeleteRow(r)
  \/ DeleteCommit(r)
  \/ DeleteUnlink(r)
  \/ DeleteDone(r)
  \/ Close(r)
  \/ Release(r)

\* the next statement of init_db in the main thread
MainStep ==
  \/ InitEnter
  \/ InitCreate
  \/ InitCommit
  \/ InitReturn
  \/ get_db_connection(Main)
  \/ Close(Main)

\* the forms followed in the fair runs: a complete one and one that lacks a
\* key, which is all the control flow of a handler tells apart
LiveForms == {NoForm, Form1, Drop(Form1, "title")}

LiveEnter(r) == Enter(r) /\ loc'[r].data \in LiveForms

\* a run of the process that is not killed.  The clock is left alone: no
\* branch of any handler reads it.
NextLive ==
  \/ MainStep
  \/ \E r \in Threads : Request(r)
  \/ \E r \in Threads : LiveEnter(r)
  \/ \E r \in Threads : Step(r)

\* every thread that can execute its next statement does so in the end, and
\* db_lock is fair: a thread that finds the lock free again and again while
\* it waits obtains it in the end
LiveSpec ==
  /\ Init
  /\ [][NextLive]_vars
  /\ WF_vars(MainStep)
  /\ \A r \in Threads : WF_vars(Step(r)) /\ SF_vars(LiveEnter(r))

\* ------------------------------------------- upload directory changed outside
\* a file of the upload directory is removed by something other than this
\* program (an operator, a cleanup job): the directory is an ordinary one.
\* Only files that a committed attachment row names are followed, no handler
\* ever looks for any other file; and a removal is taken between two locked
\* handlers, the only place a handler looks at the directory being the unlink
\* loop of delete_homework, which finds the file either there or gone.
FileLost(filename) ==
  /\ Exists(disk, filename)
  /\ \E att \in db.attachments : att.filepath = filename
  /\ db_lock = NoOne
  /\ disk' = disk \ {filename}
  /\ UNCHANGED <<pc, op, loc, resp, pre, db_lock, conn, db, clock, names,
                 serving>>

NextExt ==
  \/ Next
  \/ \E filename \in StoredNames : FileLost(filename)

\* the program together with removals of uploaded files from outside
SpecExt == Init /\ [][NextExt]_vars


\* ================================================================== claims
HwIds(d) == {hw.id : hw \in d.homeworks}
AttsOf(d, id) == {att \in d.attachments : att.homework_id = id}
RowOf(d, id) == CHOOSE hw \in d.homeworks : hw.id = id

\* the <<subject, entry>> pairs of a listing, and the number of its entries
Entries(L) ==
  UNION {{<<s, L[s].homeworks[j]>> : j \in DOMAIN L[s].homeworks} : s \in DOMAIN L}

RECURSIVE SizeOver(_, _)
SizeOver(L, S) == IF S = {} THEN 0
                  ELSE LET s == CHOOSE x \in S : TRUE
                       IN Len(L[s].homeworks) + SizeOver(L, S \ {s})
ListingSize(L) == SizeOver(L, DOMAIN L)

Listed(d, id) == \E L \in Listings(d) : \E e \in Entries(L) : e[2].id = id

\* the handler of r has produced its response: it is about to close its
\* connection, or it returned 400 before opening one
Answered(r) == pc[r] = "close" \/ (pc[r] = "ret" /\ resp[r].why = "missing")

Unchanged(r) == db = pre[r].db /\ disk = pre[r].disk

LacksField(data) ==
  \E k \in required_fields : k \notin DOMAIN data \/ data[k] = ""

\* C1: a create or update request in which one of time, subject, title,
\* content is missing or empty is answered 400 and changes neither table nor
\* the upload directory.
C1_Claim ==
  \A r \in Threads :
    (Answered(r) /\ op[r] \in {"add", "update"} /\ LacksField(loc[r].data))
      => (resp[r].status = 400 /\ Unchanged(r))

DeletedExisting(r) ==
  /\ pc[r] = "close"
  /\ op[r] = "delete"
  /\ resp[r].status = 200
  /\ loc[r].id \in HwIds(pre[r].db)

Former(r) == {att.filepath : att \in AttsOf(pre[r].db, loc[r].id)}

RowsGone(r) ==
  /\ loc[r].id \notin HwIds(db)
  /\ AttsOf(db, loc[r].id) = {}
  /\ ~Listed(db, loc[r].id)

\* C2 as stated: after delete_homework(id) of an existing id, in every case,
\* the rows are gone, the homework is not listed, and none of its files
\* exists or can be downloaded.
C2_Claim ==
  \A r \in Threads :
    DeletedExisting(r) =>
      /\ RowsGone(r)
      /\ \A n \in Former(r) : ~Exists(disk, n) /\ uploaded_file(disk, n) = 404

\* C2 amended: after delete_homework(id) of an existing id has answered 200
\* the rows are gone and the homework is not listed; a file whose os.unlink
\* did not fail is gone and its download answers 404, a file whose os.unlink
\* failed is still there and can still be downloaded.
C2_DeleteRemoves ==
  \A r \in Threads :
    DeletedExisting(r) =>
      /\ RowsGone(r)
      /\ \A n \in Former(r) :
           IF <<"failed", n>> \in loc[r].log
           THEN Exists(disk, n) /\ uploaded_file(disk, n) = 200
           ELSE ~Exists(disk, n) /\ uploaded_file(disk, n) = 404
      /\ disk \cup Former(r) = pre[r].disk

C2_Witness ==
  \E r \in Threads :
    /\ DeletedExisting(r)
    /\ \E n \in Former(r) : <<"failed", n>> \in loc[r].log
    /\ \E n \in Former(r) : <<"deleted", n>> \in loc[r].log

UnknownId(r) ==
  /\ pc[r] = "close"
  /\ op[r] \in {"update", "delete"}
  /\ loc[r].id \notin HwIds(pre[r].db)

\* C3 as stated: delete_homework and update_homework of an id that is not in
\* homeworks both answer 404 and change nothing.
C3_Claim ==
  \A r \in Threads :
    UnknownId(r) => (resp[r].status = 404 /\ Unchanged(r))

\* C3 amended: update_homework of an unknown id (with all four fields present
\* and a connection obtained) answers 404; delete_homework of an unknown id
\* does not fail, it answers 200; both change neither table nor the upload
\* directory.
C3_UnknownId ==
  \A r \in Threads :
    UnknownId(r) =>
      /\ resp[r].status = IF op[r] = "update" THEN 404 ELSE 200
      /\ Unchanged(r)

C3_Witness ==
  \E r \in Threads :
    /\ UnknownId(r)
    /\ op[r] = "delete"
    /\ db.attachments /= {}


Updated(r) ==
  /\ pc[r] = "close"
  /\ op[r] = "update"
  /\ resp[r].status = 200

Added(r) == db.attachments \ pre[r].db.attachments

\* C4: a successful update_homework(id, ...) sets the four fields of that row
\* to the supplied values, keeps its id and created_at, keeps every attachment
\* row and file that was there, adds exactly one attachment row per supplied
\* file with a non-empty filename, and leaves every other homework alone.
C4_UpdateFrame ==
  \A r \in Threads :
    Updated(r) =>
      LET id == loc[r].id
          data == loc[r].data
      IN /\ id \in HwIds(pre[r].db)
         /\ Cardinality({hw \in db.homeworks : hw.id = id}) = 1
         /\ RowOf(db, id).time = data["time"]
         /\ RowOf(db, id).subject = data["subject"]
         /\ RowOf(db, id).title = data["title"]
         /\ RowOf(db, id).content = data["content"]
         /\ RowOf(db, id).created_at = RowOf(pre[r].db, id).created_at
         /\ pre[r].db.attachments \subseteq db.attachments
         /\ pre[r].disk \subseteq disk
         /\ Cardinality(Added(r)) = NonEmptyCount(loc[r].files)
         /\ \A att \in Added(r) :
              att.homework_id = id /\ att.filename /= "" /\ Exists(disk, att.filepath)
         /\ {hw \in db.homeworks : hw.id /= id}
              = {hw \in pre[r].db.homeworks : hw.id /= id}
         /\ db.hw_seq = pre[r].db.hw_seq

C4_Witness ==
  \E r \in Threads :
    /\ Updated(r)
    /\ RowOf(db, loc[r].id) /= RowOf(pre[r].db, loc[r].id)
    /\ RowOf(db, loc[r].id).created_at /= clock
    /\ AttsOf(pre[r].db, loc[r].id) /= {}
    /\ Added(r) /= {}
    /\ \E hw \in db.homeworks : hw.id /= loc[r].id

Created(r) ==
  /\ pc[r] = "close"
  /\ op[r] = "add"
  /\ resp[r].status = 201
  /\ ~LacksField(loc[r].data)

NewEntry(r, e) ==
  /\ e[1] = loc[r].data["subject"]
  /\ e[2].subject = loc[r].data["subject"]
  /\ e[2].time = loc[r].data["time"]
  /\ e[2].title = loc[r].data["title"]
  /\ e[2].content = loc[r].data["content"]
  /\ e[2].id = resp[r].id
  /\ e[2].createdAt \in 1 .. clock

\* C5: after add_homework succeeded on a valid input, every listing
\* get_homeworks can return holds exactly one entry more than before, under
\* the given subject, with the given fields, the returned id and createdAt
\* set; the entries listed before are listed unchanged.
C5_CreateListed ==
  \A r \in Threads :
    Created(r) =>
      \A L \in Listings(db), Lp \in Listings(pre[r].db) :
        /\ ListingSize(L) = ListingSize(Lp) + 1
        /\ Entries(Lp) \subseteq Entries(L)
        /\ Cardinality(Entries(L)) = ListingSize(L)
        /\ \A e \in Entries(L) \ Entries(Lp) : NewEntry(r, e)

C5_Witness ==
  \E r \in Threads :
    /\ Created(r)
    /\ \E hw \in pre[r].db.homeworks : hw.subject = loc[r].data["subject"]
    /\ resp[r].attachments /= <<>>


\* p is inside its handler: between entering it and returning from it
InHandler(p) == pc[p] \notin {"idle", "wait", "ret", "serve", "exit"}

\* C6: at most one of init_db, get_homeworks, add_homework, update_homework,
\* delete_homework has a connection open, and whoever is inside its handler or
\* has a connection open holds db_lock.
C6_MutualExclusion ==
  /\ Cardinality({p \in Procs : conn[p].open}) <= 1
  /\ Cardinality({p \in Procs : InHandler(p)}) <= 1
  /\ \A p \in Procs : (conn[p].open \/ InHandler(p)) => db_lock = p

C6_Witness ==
  \E p, q \in Threads :
    /\ p /= q
    /\ conn[p].intxn
    /\ pc[q] = "wait"

\* C7 as stated: file writes are not covered by the database lock -- a request
\* that is inside file.save does not hold db_lock.
C7_Claim ==
  \A r \in Threads : pc[r] = "saving" => db_lock /= r

\* C7 amended: file writes are covered by the database lock -- a request
\* inside file.save holds db_lock, so no two requests are inside file.save at
\* the same time.
C7_SaveUnderLock ==
  \A r \in Threads :
    pc[r] = "saving" =>
      /\ db_lock = r
      /\ \A q \in Threads \ {r} : pc[q] /= "saving"

C7_Witness ==
  \E r, q \in Threads :
    /\ pc[r] = "saving"
    /\ pc[q] = "wait"

\* file.save failed in the handler of r, after its INSERT or UPDATE
SaveFailed(r) == pc[r] = "close" /\ resp[r].why = "save"

SavedNames(r) == {loc[r].saved_files[j].filepath : j \in DOMAIN loc[r].saved_files}

\* C8 as stated: when a disk write fails after the homework row was inserted
\* or updated, the rows the request wrote and the files it wrote are all
\* persisted once the request has ended.
C8_Claim ==
  [][\A r \in Threads :
       (SaveFailed(r) /\ pc'[r] = "ret") =>
         /\ conn[r].work.homeworks \subseteq db'.homeworks
         /\ conn[r].work.attachments \subseteq db'.attachments
         /\ SavedNames(r) \subseteq disk']_vars

\* C8 amended: when a disk write fails after the homework row was inserted or
\* updated, the request ends with both tables exactly as it found them (its
\* rows are rolled back), while the files it had already written stay on disk.
C8_RolledBack ==
  [][\A r \in Threads :
       (SaveFailed(r) /\ pc'[r] = "ret") =>
         /\ conn[r].intxn
         /\ db' = pre[r].db
         /\ ~conn'[r].intxn
         /\ SavedNames(r) \subseteq disk'
         /\ pre[r].disk \subseteq disk'
         /\ \A att \in db'.attachments : att.filepath \notin SavedNames(r)]_vars

C8_Witness ==
  \E r \in Threads :
    /\ SaveFailed(r)
    /\ op[r] = "add"
    /\ loc[r].saved_files /= <<>>
    /\ loc[r].homework_id \in HwIds(conn[r].work)

\* C9: every committed attachment row names a file that exists in the upload
\* directory, in every reachable state, restarts in the middle of a handler
\* included.
C9_NoDanglingRows ==
  \A att \in db.attachments : Exists(disk, att.filepath)

C9_Witness ==
  /\ ~serving
  /\ db.attachments /= {}
  /\ \E n \in disk : \A att \in db.attachments : att.filepath /= n

AllLocked(seq) == \A j \in DOMAIN seq : seq[j] = "locked"

\* C10 as stated: when every attempt fails with a "locked" error the error is
\* surfaced after 5 retries, each preceded by a 500 ms sleep.
C10_Claim ==
  [][\A p \in Procs :
       (pc[p] = "connect" /\ pc'[p] = "ret" /\ resp'[p].why = "locked") =>
         /\ loc[p].attempts = 5
         /\ loc[p].slept = 5 * SleepMs]_vars

\* C10 amended: get_db_connection tries at most max_attempts = 5 times in
\* all: a "locked" failure is retried after a 500 ms sleep at most 4 times and
\* the fifth "locked" failure is surfaced; any other error is surfaced on the
\* attempt it occurs, without retry; a successful attempt returns the
\* connection at once.
C10_RetryPolicy ==
  [][\A p \in Procs :
       pc[p] = "connect" =>
         /\ loc[p].attempts < max_attempts
         /\ loc[p].attempts = Len(loc[p].outcomes)
         /\ loc[p].slept = SleepMs * loc[p].attempts
         /\ AllLocked(loc[p].outcomes)
         /\ ((pc'[p] = "connect" /\ loc'[p] /= loc[p]) =>
               /\ loc'[p].attempts = loc[p].attempts + 1
               /\ loc'[p].slept = loc[p].slept + SleepMs
               /\ loc'[p].outcomes = Append(loc[p].outcomes, "locked"))
         /\ (pc'[p] = "ret" =>
               /\ resp'[p].status = 500
               /\ resp'[p].why \in {"locked", "error"}
               /\ ~conn'[p].open
               /\ resp'[p].why = "locked" =>
                    /\ loc[p].attempts = max_attempts - 1
                    /\ loc[p].slept = (max_attempts - 1) * SleepMs)
         /\ (pc'[p] = FirstStatement(op[p]) => conn'[p].open)]_vars

C10_Witness ==
  \E p \in Procs : pc[p] = "ret" /\ resp[p].why = "locked"

\* the attachment rows p can see or has written: committed ones and those of
\* its open transaction
RowsSeen(p) == db.attachments \cup View(p).attachments

\* file.save is about to create the file it was given a fresh name for
CreatesFile(r) == pc[r] = "loop" /\ pc'[r] = "saving"

\* C11: every stored attachment gets a distinct storedName -- no two
\* attachment rows, committed or pending, share a filepath, also when their
\* original filenames and the second of their upload agree -- and no upload
\* writes to a name that is already in the upload directory or in a row, so
\* every row's file is there to be downloaded on its own.
C11_DistinctStoredNames ==
  /\ [](\A p \in Procs : \A a, b \in RowsSeen(p) :
          a.filepath = b.filepath => a = b)
  /\ [](\A a \in db.attachments : uploaded_file(disk, a.filepath) = 200)
  /\ [][\A r \in Threads :
          CreatesFile(r) =>
            /\ ~Exists(disk, loc'[r].unique_filename)
            /\ Exists(disk', loc'[r].unique_filename)
            /\ disk' = disk \cup {loc'[r].unique_filename}
            /\ \A a \in RowsSeen(r) : a.filepath /= loc'[r].unique_filename]_vars

\* two creates uploaded the same original filename within the same second
C11_Witness ==
  \E a, b \in db.attachments :
    /\ a.homework_id /= b.homework_id
    /\ a.filename = b.filename
    /\ a.filepath[1] = b.filepath[1]
    /\ a.filepath /= b.filepath
    /\ Exists(disk, a.filepath) /\ Exists(disk, b.filepath)

\* r is in delete_homework between its first DELETE and its commit
MidDelete(r) == op[r] = "delete" /\ pc[r] \in {"delhw", "commit"}

\* C12: the cascade of delete_homework(id) is atomic in the database file: a
\* step that removes the homework row id from the committed tables removes
\* every attachment row of id with it and is the commit of a delete of id; as
\* long as the homework row stays, every committed attachment row of id
\* stays; a delete that is cut off between its two DELETE statements or
\* before its commit leaves the committed tables as they were.
C12_CascadeAtomic ==
  [][/\ \A id \in IdRange :
          /\ (id \in HwIds(db) /\ id \notin HwIds(db')) =>
                /\ AttsOf(db', id) = {}
                /\ \E r \in Threads :
                     op[r] = "delete" /\ pc[r] = "commit" /\ loc[r].id = id
          /\ (id \in HwIds(db) /\ id \in HwIds(db')) =>
                AttsOf(db, id) \subseteq AttsOf(db', id)
          /\ (id \notin HwIds(db) /\ id \notin HwIds(db')) =>
                (AttsOf(db, id) = {} /\ AttsOf(db', id) = {})
     /\ \A r \in Threads :
          (MidDelete(r) /\ pc'[r] \notin {"commit", "unlink"}) =>
            (db' = db /\ db' = pre[r].db)]_vars

\* the first DELETE has run on existing attachment rows, the second has not
C12_Witness ==
  \E r \in Threads :
    /\ op[r] = "delete" /\ pc[r] = "delhw"
    /\ AttsOf(db, loc[r].id) /= {}
    /\ AttsOf(conn[r].work, loc[r].id) = {}
    /\ loc[r].id \in HwIds(conn[r].work)

\* C13: in every committed state every attachment row's homework_id is the id
\* of a homework row that exists, whatever the order in which create, update
\* and delete requests arrive and wait for each other; the rows a request has
\* pending in its transaction satisfy the same.
C13_ReferentialIntegrity ==
  /\ \A att \in db.attachments : att.homework_id \in HwIds(db)
  /\ \A p \in Procs :
       conn[p].intxn =>
         \A att \in conn[p].work.attachments :
           att.homework_id \in HwIds(conn[p].work)

\* an update has added an attachment to a homework and a delete of that
\* homework has since removed it, with another request waiting for the lock
C13_Witness ==
  \E r, q \in Threads :
    /\ DeletedExisting(r)
    /\ \E att \in AttsOf(pre[r].db, loc[r].id) :
         att.filepath[1] > RowOf(pre[r].db, loc[r].id).created_at
    /\ db.attachments /= {}
    /\ pc[q] = "wait"

\* get_homeworks of r has produced its listing
ListedBy(r) == pc[r] = "close" /\ op[r] = "get" /\ resp[r].status = 200

\* the attachment entries a listing shows for one homework
ShownAtts(e) == {e.attachments[j] : j \in DOMAIN e.attachments}

\* C14 as stated: get_homeworks returns every homework exactly once, under its
\* own subject; within a subject the homework created later (the one with the
\* greater id) comes before the one created earlier, also when both were
\* created within the same second; each entry carries exactly the attachment
\* rows of its homework.
C14_Claim ==
  \A r \in Threads :
    ListedBy(r) =>
      LET L == resp[r].data
      IN /\ ListingSize(L) = Cardinality(db.homeworks)
         /\ {e[2].id : e \in Entries(L)} = HwIds(db)
         /\ \A e \in Entries(L) : e[1] = e[2].subject
         /\ \A s \in DOMAIN L : \A j, k \in DOMAIN L[s].homeworks :
              j < k => L[s].homeworks[j].id > L[s].homeworks[k].id
         /\ \A e \in Entries(L) :
              /\ Len(e[2].attachments) = Cardinality(AttsOf(db, e[2].id))
              /\ ShownAtts(e[2]) = {AttachmentJson(att) : att \in AttsOf(db, e[2].id)}

\* C15 as stated: when file.save fails in add_homework or update_homework, no
\* file with the stored name generated for that upload, partial or complete,
\* is in the upload directory once the handler has answered.
C15_Claim ==
  \A r \in Threads :
    SaveFailed(r) => ~Exists(disk, loc[r].unique_filename)

\* add_homework or update_homework of r has answered with success
Stored(r) ==
  /\ pc[r] = "close"
  /\ op[r] \in {"add", "update"}
  /\ resp[r].status \in {200, 201}

\* the loop of r is at an upload entry with an empty filename
AtEmptyEntry(r) ==
  /\ pc[r] = "loop"
  /\ loc[r].i <= Len(loc[r].files)
  /\ loc[r].files[loc[r].i] = ""

\* C16: an upload entry with an empty filename adds no attachment row, writes
\* no file and raises no error, the loop goes on with the next entry; a
\* successful create or update has added as many attachment rows, written as
\* many files and reported as many attachments as there were entries with a
\* non-empty filename.
C16_SkipRule ==
  /\ [](\A r \in Threads :
          Stored(r) =>
            /\ Cardinality(Added(r)) = NonEmptyCount(loc[r].files)
            /\ Cardinality(disk \ pre[r].disk) = NonEmptyCount(loc[r].files)
            /\ Len(resp[r].attachments) = NonEmptyCount(loc[r].files)
            /\ \A att \in Added(r) : att.filename /= "")
  /\ [][\A r \in Threads :
          (AtEmptyEntry(r) /\ pc'[r] /= "idle" /\ loc'[r] /= loc[r]) =>
            /\ pc'[r] = "loop"
            /\ loc'[r] = [loc[r] EXCEPT !.i = @ + 1]
            /\ resp'[r] = resp[r]
            /\ conn'[r] = conn[r]
            /\ disk' = disk /\ db' = db /\ names' = names]_vars

\* a request whose first upload entry was empty and whose second was not
C16_Witness ==
  \E r \in Threads :
    /\ Stored(r)
    /\ Len(loc[r].files) = 2
    /\ loc[r].files[1] = "" /\ loc[r].files[2] /= ""
    /\ Cardinality(Added(r)) = 1

\* delete_homework of r has answered
Deleted(r) == pc[r] = "close" /\ op[r] = "delete"

Logged(r, filename) == \E kind \in {"deleted", "failed", "missing"} :
                         <<kind, filename>> \in loc[r].log

\* C17 as stated: delete_homework answers 200 also when files of the deleted
\* attachment rows are already absent, it removes the files that are there
\* (unless os.unlink fails), and it emits a log event for every stored name
\* of the deleted rows: "deleted", "failed", or, for an absent file, the
\* anomaly "missing".
C17_Claim ==
  \A r \in Threads :
    Deleted(r) =>
      /\ resp[r].status = 200
      /\ \A filename \in Former(r) :
           /\ Logged(r, filename)
           /\ <<"failed", filename>> \notin loc[r].log => ~Exists(disk, filename)

\* p holds no lock it has no use for: outside the wrapper db_lock is not p's
Outside(p) == pc[p] \in {"idle", "wait", "serve", "exit"}

\* C18: db_lock is released on every way out of a locked operation (normal
\* return, 400 or 404, an error answered 500, get_db_connection raising);
\* get_db_connection ends with a connection or with an exception, never with
\* None; hence, the lock being fair, every request that waits for db_lock
\* obtains it and every request that holds it answers and gives it back, and
\* init_db ends.
C18_Progress ==
  /\ [](\A p \in Procs : Outside(p) => db_lock /= p)
  /\ [](\A p \in Procs :
          (InHandler(p) /\ pc[p] /= "connect") => conn[p].open)
  /\ \A r \in Threads : (pc[r] = "wait") ~> (db_lock = r)
  /\ \A r \in Threads : (db_lock = r) ~> (pc[r] = "idle" /\ db_lock /= r)
  /\ (pc[Main] = "wait") ~> (pc[Main] \in {"serve", "exit"})

\* get_db_connection has raised in one request, which still holds the lock,
\* while another request waits for it
C18_Witness ==
  \E r, q \in Threads :
    /\ pc[r] = "ret" /\ resp[r].why = "locked" /\ db_lock = r
    /\ pc[q] = "wait"

\* add_homework or update_homework of r ends with an internal error: this
\* step is its conn.close() after the except branch, or get_db_connection
\* raising
Ends500(r) ==
  /\ op[r] \in {"add", "update"}
  /\ pc[r] \in {"close", "connect"}
  /\ pc'[r] = "ret"
  /\ resp'[r].status = 500

\* C19: a create or update request that ends with 500 has committed nothing:
\* the committed tables, the AUTOINCREMENT counters included, are exactly as
\* the request found them and no transaction of it is left open; every file
\* it wrote is still in the upload directory, named by no attachment row, and
\* the files that were there before are all still there.
C19_AllOrNothing ==
  [][\A r \in Threads :
       Ends500(r) =>
         LET written == disk' \ pre[r].disk
         IN /\ db' = pre[r].db
            /\ db' = db
            /\ ~conn'[r].open
            /\ disk' = disk
            /\ pre[r].disk \subseteq disk'
            /\ SavedNames(r) \subseteq written
            /\ Cardinality(written) \in {Len(loc[r].saved_files),
                                         Len(loc[r].saved_files) + 1}
            /\ \A att \in db'.attachments : att.filepath \notin written]_vars

\* an update fails at its second upload, after changing the row's fields and
\* storing its first upload
C19_Witness ==
  \E r \in Threads :
    /\ SaveFailed(r)
    /\ op[r] = "update"
    /\ loc[r].saved_files /= <<>>
    /\ RowOf(conn[r].work, loc[r].id) /= RowOf(db, loc[r].id)

\* add_homework of r commits and answers 201 in this step
Succeeds(r) ==
  /\ op[r] = "add"
  /\ pc[r] = "loop"
  /\ pc'[r] = "close"
  /\ resp'[r].status = 201

\* C20: no two committed homework rows share an id; the id a successful
\* create returns is greater than every id a successful create returned
\* before, whether or not the homework of that id has been deleted since, so
\* no id is ever given to a second homework; the committed AUTOINCREMENT
\* counter never decreases and bounds every committed id.
C20_IdsNeverReused ==
  /\ [](\A a, b \in db.homeworks : a.id = b.id => a = b)
  /\ [](\A hw \in db.homeworks : hw.id \in 1 .. db.hw_seq)
  /\ [][/\ db'.hw_seq >= db.hw_seq
        /\ \A id \in HwIds(db') \ HwIds(db) : id > db.hw_seq
        /\ \A r \in Threads :
             Succeeds(r) =>
               /\ resp'[r].id > db.hw_seq
               /\ resp'[r].id = db'.hw_seq
               /\ HwIds(db') \ HwIds(db) = {resp'[r].id}]_vars

\* a create is answered id 2 after the homework with id 1 has been deleted
C20_Witness ==
  \E r \in Threads :
    /\ Created(r)
    /\ resp[r].id = 2
    /\ pre[r].db.homeworks = {}
    /\ pre[r].db.hw_seq = 1

====
